---- MODULE Spec2Model ----
(***************************************************************************)
(* TamlBinaryWriter (engine/source/persistence/taml/tamlBinaryWriter.cc):  *)
(* the binary encoder of a TamlWriteNode tree.                             *)
(*                                                                         *)
(* The C++ call stack is the variable `stack`; every function of the       *)
(* writer is a frame kind and every statement that writes to the stream   *)
(* or calls another function is an action.  `out` is the sequence of       *)
(* write calls the code has issued, each tagged with the stream object it  *)
(* was issued on (the FileStream itself or the ZipSubWStream).             *)
(*                                                                         *)
(* Strings are abstract: a name is a natural number (0 is the empty        *)
(* string of the StringTable), a field value is a record of an identity    *)
(* and a length, so that the length cap of writeLongString is observable.  *)
(***************************************************************************)
EXTENDS Integers, Sequences, FiniteSets, TLC

\* ------------------------------------------------------------------ bounds

\* Number of TamlWriteNode objects of an input; node 1 is the root.
NumNodes == 3
\* Number of TamlCustomNode objects of an input.
NumCustoms == 3
\* Largest number of fields of a node or of a custom node.
MaxFields == 2
\* Number of frames the native call stack holds before it is exhausted.
MaxStack == 12

\* --------------------------------------------------------------- constants

\* The signature string and the version id written by write().
TAML_SIGNATURE == 7
mVersionId == 2
\* The cap passed to writeLongString for an attribute value.
AttributeValueMax == 4096
\* The cap passed to writeLongString for a custom node's field value.
MAX_TAML_NODE_FIELDVALUE_LENGTH == 8192
\* StringTable->EmptyString.
EmptyString == 0
\* The null pointer.
NULL == -1

Nodes == 1..NumNodes
Customs == 1..NumCustoms
Root == 1

VARIABLES
    node,        \* Nodes -> TamlWriteNode (read-only while encoding)
    custom,      \* Customs -> TamlCustomNode (read-only while encoding)
    compressed,  \* the `compressed` argument of write()
    stack,       \* the call stack, innermost frame last
    out,         \* the write calls issued so far, in order
    zipAttached, \* the ZipSubWStream is attached to the FileStream
    streamOk,    \* no write call has reported failure so far
    status,      \* "running", "done", "aborted" (AssertFatal), "overflow"
    result       \* what write() returned: "none" (not yet), "true", "false"

vars == <<node, custom, compressed, stack, out, zipAttached, streamOk, status, result>>

\* ------------------------------------------------------------------ tokens

Str(s) == [k |-> "str", v |-> s, len |-> 0, zip |-> FALSE]
U32(n) == [k |-> "u32", v |-> n, len |-> 0, zip |-> FALSE]
Bool(b) == [k |-> "bool", v |-> IF b THEN 1 ELSE 0, len |-> 0, zip |-> FALSE]

Min(a, b) == IF a < b THEN a ELSE b

\* Stream::writeLongString(maxStringLen, string): the length written, and
\* the characters that follow it, are cut at maxStringLen.
writeLongString(maxStringLen, value) ==
    [k |-> "lstr", v |-> value.s, len |-> Min(value.len, maxStringLen), zip |-> FALSE]

\* Stream::writeString(string).
writeString(s) == Str(s)

\* ------------------------------------------------------------------ inputs

RECURSIVE Ascending(_)
\* The members of a finite set of numbers, smallest first.
Ascending(S) ==
    IF S = {} THEN <<>>
    ELSE LET m == CHOOSE x \in S : \A y \in S : x <= y
         IN <<m>> \o Ascending(S \ {m})

Reverse(s) == [i \in 1..Len(s) |-> s[Len(s) + 1 - i]]

\* Field profiles: profile k <= MaxFields is k fields whose values are within
\* maxLen (the first one exactly maxLen long); profile MaxFields + 1 is one
\* field whose value is one character too long.
FieldProfiles == 0..(MaxFields + 1)

FieldsOf(owner, profile, maxLen) ==
    IF profile <= MaxFields
    THEN [i \in 1..profile |->
            [mName |-> 1000 + 10 * owner + i,
             mpValue |-> [s |-> 2000 + 10 * owner + i, len |-> maxLen + 1 - i]]]
    ELSE << [mName |-> 1000 + 10 * owner,
             mpValue |-> [s |-> 2000 + 10 * owner, len |-> maxLen + 1]] >>

\* Ownership shapes: node 1 is the root; every other node is unowned (0), a
\* child of the root, or a child of the node before it.  mChildren is a pointer
\* to a vector: `null` says the pointer is NULL, `items` is the vector.  A node
\* without children has a NULL pointer when its number is odd and an empty
\* vector when it is even.
Shapes == { par \in [Nodes -> 0..NumNodes] :
              /\ par[Root] = 0
              /\ \A n \in Nodes \ {Root} : par[n] \in {0, 1, n - 1} }

ChildrenOf(par, rev, n) ==
    LET kids == Ascending({m \in Nodes : par[m] = n})
    IN [null |-> kids = <<>> /\ n % 2 = 1,
        items |-> IF rev THEN Reverse(kids) ELSE kids]

\* Custom node layouts.  "flat": the carrier holds every custom node, the first
\* a proxy, the others leaves with fields.  "nested": the carrier holds custom
\* node 1, which holds all the others, of which the first is a proxy.
CustomNodesOf(p, n) ==
    IF p.cshape = "none" \/ n # p.carrier THEN <<>>
    ELSE IF p.cshape = "flat" THEN Ascending(Customs)
    ELSE <<1>>

IsProxyCustom(p, c) ==
    IF p.cshape = "nested" THEN c = 2 ELSE c = 1

BuildCustom(p, c) ==
    [mNodeName |-> 300 + c,
     mpProxyWriteNode |-> IF IsProxyCustom(p, c) THEN p.wrap ELSE NULL,
     mChildren |-> IF p.cshape = "nested" /\ c = 1
                   THEN Ascending(Customs \ {1}) ELSE <<>>,
     mFields |-> IF IsProxyCustom(p, c) THEN <<>>
                 ELSE FieldsOf(50 + c, p.profile, MAX_TAML_NODE_FIELDVALUE_LENGTH)]

BuildNode(p, n) ==
    [mClassName |-> 100 + n,
     mpObjectName |-> IF n % 2 = 0 THEN NULL ELSE 200 + n,
     mRefId |-> IF n = p.target
                THEN (IF p.assigned THEN 500 + n ELSE 0)
                ELSE (IF n % 2 = 1 THEN 500 + n ELSE 0),
     mRefToNode |-> IF n = p.alias THEN p.target ELSE NULL,
     mFields |-> FieldsOf(n, p.profile, AttributeValueMax),
     mChildren |-> ChildrenOf(p.par, p.rev, n),
     mCustomNodes |-> CustomNodesOf(p, n)]

\* Trees without aliases and without custom nodes.
TreeParams ==
    { [par |-> par, rev |-> rev, profile |-> f, alias |-> 0, target |-> 0,
       assigned |-> TRUE, cshape |-> "none", carrier |-> 0, wrap |-> 0] :
      par \in Shapes, rev \in BOOLEAN, f \in FieldProfiles }

\* One node is an alias of another; the alias carries fields and custom nodes.
AliasParams ==
    { [par |-> par, rev |-> FALSE, profile |-> MaxFields, alias |-> a[1], target |-> a[2],
       assigned |-> g, cshape |-> "flat", carrier |-> a[1], wrap |-> a[2]] :
      par \in Shapes, a \in {x \in Nodes \X Nodes : x[1] # x[2]}, g \in BOOLEAN }

\* One node carries custom nodes; the proxy among them wraps any node.
CustomParams ==
    { [par |-> par, rev |-> FALSE, profile |-> f, alias |-> 0, target |-> 0,
       assigned |-> TRUE, cshape |-> cs, carrier |-> k, wrap |-> w] :
      par \in Shapes, f \in {0, MaxFields}, cs \in {"flat", "nested"},
      k \in Nodes, w \in Nodes }

Params == TreeParams \cup AliasParams \cup CustomParams

Init ==
    /\ \E p \in Params :
         /\ node = [n \in Nodes |-> BuildNode(p, n)]
         /\ custom = [c \in Customs |-> BuildCustom(p, c)]
    /\ compressed \in BOOLEAN
    /\ stack = << [fn |-> "write", arg |-> Root, pc |-> "signature", i |-> 0,
                   start |-> 0, zip |-> FALSE] >>
    /\ out = <<>>
    /\ zipAttached = FALSE
    /\ streamOk = TRUE
    /\ status = "running"
    /\ result = "none"

\* ------------------------------------------------------------- call stack

Top == stack[Len(stack)]

Running == status = "running" /\ stack # <<>>

At(fn, pc) == Running /\ Top.fn = fn /\ Top.pc = pc

\* The innermost frame moves to pc.
Goto(pc) == [stack EXCEPT ![Len(stack)].pc = pc]

Frame(fn, arg, pc, zip) ==
    [fn |-> fn, arg |-> arg, pc |-> pc, i |-> 0, start |-> Len(out), zip |-> zip]

\* The innermost frame moves to pc and calls fn(stream, arg).
Call(pc, fn, arg, first) ==
    /\ Len(stack) < MaxStack
    /\ stack' = Append(Goto(pc), Frame(fn, arg, first, Top.zip))

\* The same from inside a loop: the loop index moves on with the call.
CallNext(pc, fn, arg, first) ==
    /\ Len(stack) < MaxStack
    /\ stack' = Append([stack EXCEPT ![Len(stack)].pc = pc, ![Len(stack)].i = Top.i + 1],
                       Frame(fn, arg, first, Top.zip))

\* stream.write / stream.writeString: the calls are issued on the frame's
\* stream; each may fail, and nothing in the writer reads the outcome.
Write(toks) ==
    /\ out' = out \o [j \in 1..Len(toks) |-> [toks[j] EXCEPT !.zip = Top.zip]]
    /\ \E ok \in BOOLEAN : streamOk' = (streamOk /\ ok)

\* ------------------------------------------------------------------ write

\* Line 40: stream.writeString( StringTable->insert( TAML_SIGNATURE ) ).
WriteSignature ==
    /\ At("write", "signature")
    /\ Write(<<writeString(TAML_SIGNATURE)>>)
    /\ stack' = Goto("version")
    /\ UNCHANGED <<node, custom, compressed, zipAttached, status, result>>

\* Line 43: stream.write( mVersionId ).
WriteVersionId ==
    /\ At("write", "version")
    /\ Write(<<U32(mVersionId)>>)
    /\ stack' = Goto("flag")
    /\ UNCHANGED <<node, custom, compressed, zipAttached, status, result>>

\* A flag that ignores the argument.
CompressedFlagAlwaysSet == Bool(TRUE)

\* Line 46: the flag written is the `compressed` argument.
CompressedFlag == Bool(compressed)

\* Line 46: stream.write( compressed ).
WriteCompressedFlag ==
    /\ At("write", "flag")
    /\ Write(<<CompressedFlag>>)
    /\ stack' = Goto("branch")
    /\ UNCHANGED <<node, custom, compressed, zipAttached, status, result>>

\* Lines 49-53: compressed, so zipStream.attachStream( &stream ); what follows
\* in this frame is issued on zipStream.
AttachZipStream ==
    /\ At("write", "branch")
    /\ compressed
    /\ zipAttached' = TRUE
    /\ stack' = [stack EXCEPT ![Len(stack)].pc = "element", ![Len(stack)].zip = TRUE]
    /\ UNCHANGED <<node, custom, compressed, out, streamOk, status, result>>

\* Line 56: writeElement( zipStream, pTamlWriteNode ), then on to the detach.
WriteCallElementZip ==
    /\ At("write", "element")
    /\ Call("detach", "writeElement", Top.arg, "name")
    /\ UNCHANGED <<node, custom, compressed, out, zipAttached, streamOk, status, result>>

\* Line 64: not compressed, so writeElement( stream, pTamlWriteNode ).
WriteCallElementRaw ==
    /\ At("write", "branch")
    /\ ~compressed
    /\ Call("return", "writeElement", Top.arg, "name")
    /\ UNCHANGED <<node, custom, compressed, out, zipAttached, streamOk, status, result>>

\* Line 59: zipStream.detachStream().
DetachZipStream ==
    /\ At("write", "detach")
    /\ zipAttached' = FALSE
    /\ stack' = Goto("return")
    /\ UNCHANGED <<node, custom, compressed, out, streamOk, status, result>>

\* The value write() returns (line 67).
WriteResult == "true"

\* Line 67: return true.
WriteReturn ==
    /\ At("write", "return")
    /\ result' = WriteResult
    /\ status' = "done"
    /\ stack' = <<>>
    /\ UNCHANGED <<node, custom, compressed, out, zipAttached, streamOk>>

\* ----------------------------------------------------------- writeElement

\* Lines 78-84: stream.writeString( pSimObject->getClassName() ).
ElementWriteName ==
    /\ At("writeElement", "name")
    /\ Write(<<writeString(node[Top.arg].mClassName)>>)
    /\ stack' = Goto("objectName")
    /\ UNCHANGED <<node, custom, compressed, zipAttached, status, result>>

\* Line 90: pObjectName != NULL ? pObjectName : StringTable->EmptyString.
ObjectNameWritten(n) ==
    IF node[n].mpObjectName # NULL THEN node[n].mpObjectName ELSE EmptyString

\* Lines 87-90: stream.writeString( the object name ).
ElementWriteObjectName ==
    /\ At("writeElement", "objectName")
    /\ Write(<<writeString(ObjectNameWritten(Top.arg))>>)
    /\ stack' = Goto("refId")
    /\ UNCHANGED <<node, custom, compressed, zipAttached, status, result>>

\* Lines 93-96: stream.write( tamlRefId ).
ElementWriteRefId ==
    /\ At("writeElement", "refId")
    /\ Write(<<U32(node[Top.arg].mRefId)>>)
    /\ stack' = Goto("refTo")
    /\ UNCHANGED <<node, custom, compressed, zipAttached, status, result>>

\* Line 99: pTamlWriteNode->mRefToNode != NULL.
HasRefToNode(n) == node[n].mRefToNode # NULL

\* Line 102: tamlRefToId = pTamlWriteNode->mRefToNode->mRefId.
tamlRefToId(n) == node[node[n].mRefToNode].mRefId

\* The sanity check left out.
RefToIdUnchecked(n) == TRUE

\* Line 105: the condition of the AssertFatal.
RefToIdIsValid(n) == tamlRefToId(n) # 0

\* What a failed AssertFatal does to the process: it stops it.
AssertFatalOutcome == "aborted"

\* Line 105: AssertFatal( tamlRefToId != 0, ... ) fails.
ElementAssertFatal ==
    /\ At("writeElement", "refTo")
    /\ HasRefToNode(Top.arg)
    /\ ~RefToIdIsValid(Top.arg)
    /\ status' = AssertFatalOutcome
    /\ UNCHANGED <<node, custom, compressed, stack, out, zipAttached, streamOk, result>>

\* Falling through to the attributes instead of returning.
AfterRefToFallThrough == "attributes"

\* Where writeElement goes after it wrote the reference-to id (line 111: return).
AfterRefTo == "return"

\* Lines 99-111: a reference to a node: write its id and finish.
ElementWriteRefTo ==
    /\ At("writeElement", "refTo")
    /\ HasRefToNode(Top.arg)
    /\ RefToIdIsValid(Top.arg)
    /\ Write(<<U32(tamlRefToId(Top.arg))>>)
    /\ stack' = Goto(AfterRefTo)
    /\ UNCHANGED <<node, custom, compressed, zipAttached, status, result>>

\* Line 115: the literal written for "no reference": an int 0, four zero
\* bytes, which is the wire image of a U32 0.
NoRefToId == U32(0)

\* Line 115: stream.write( 0 ).
ElementWriteNoRef ==
    /\ At("writeElement", "refTo")
    /\ ~HasRefToNode(Top.arg)
    /\ Write(<<NoRefToId>>)
    /\ stack' = Goto("attributes")
    /\ UNCHANGED <<node, custom, compressed, zipAttached, status, result>>

\* Line 118: writeAttributes( stream, pTamlWriteNode ).
ElementCallAttributes ==
    /\ At("writeElement", "attributes")
    /\ Call("children", "writeAttributes", Top.arg, "count")
    /\ UNCHANGED <<node, custom, compressed, out, zipAttached, streamOk, status, result>>

\* Line 121: writeChildren( stream, pTamlWriteNode ).
ElementCallChildren ==
    /\ At("writeElement", "children")
    /\ Call("custom", "writeChildren", Top.arg, "count")
    /\ UNCHANGED <<node, custom, compressed, out, zipAttached, streamOk, status, result>>

\* Line 124: writeCustomElements( stream, pTamlWriteNode ).
ElementCallCustomElements ==
    /\ At("writeElement", "custom")
    /\ Call("return", "writeCustomElements", Top.arg, "count")
    /\ UNCHANGED <<node, custom, compressed, out, zipAttached, streamOk, status, result>>

\* -------------------------------------------------------- writeAttributes

\* Line 135: fields = pTamlWriteNode->mFields.
fields(n) == node[n].mFields

\* Line 138: the attribute count written.
AttributeCount(n) == Len(fields(n))

\* Lines 138-142: stream.write( (U32)fields.size() ); finish if no fields.
AttributesWriteCount ==
    /\ At("writeAttributes", "count")
    /\ Write(<<U32(AttributeCount(Top.arg))>>)
    /\ stack' = IF Len(fields(Top.arg)) = 0
                THEN Goto("return")
                ELSE [stack EXCEPT ![Len(stack)].pc = "fields", ![Len(stack)].i = 1]
    /\ UNCHANGED <<node, custom, compressed, zipAttached, status, result>>

\* The value written before the name.
AttributeTokensValueFirst(pFieldValue) ==
    <<writeLongString(AttributeValueMax, pFieldValue.mpValue),
      writeString(pFieldValue.mName)>>

\* Lines 151-152: the two writes of one field/value pair.
AttributeTokens(pFieldValue) ==
    <<writeString(pFieldValue.mName),
      writeLongString(AttributeValueMax, pFieldValue.mpValue)>>

\* The field the loop of writeAttributes visits at index i.
AttributeAt(n, i) == fields(n)[i]

\* Lines 145-153: one iteration of the loop over the fields.
AttributesWriteField ==
    /\ At("writeAttributes", "fields")
    /\ Write(AttributeTokens(AttributeAt(Top.arg, Top.i)))
    /\ stack' = IF Top.i = Len(fields(Top.arg))
                THEN Goto("return")
                ELSE [stack EXCEPT ![Len(stack)].i = Top.i + 1]
    /\ UNCHANGED <<node, custom, compressed, zipAttached, status, result>>

\* ---------------------------------------------------------- writeChildren

\* Line 162: pChildren = pTamlWriteNode->mChildren.
pChildren(n) == node[n].mChildren

\* A NULL children vector told apart from an empty one on the wire.
NoChildrenCountDistinct == U32(NumNodes + 1)

\* Line 168: the count written when there is no children vector.
NoChildrenCount == U32(0)

\* Lines 165-170: no children vector: stream.write( (U32)0 ) and return.
ChildrenWriteNone ==
    /\ At("writeChildren", "count")
    /\ pChildren(Top.arg).null
    /\ Write(<<NoChildrenCount>>)
    /\ stack' = Goto("return")
    /\ UNCHANGED <<node, custom, compressed, zipAttached, status, result>>

\* Line 173: the children count written.
ChildrenCount(n) == Len(pChildren(n).items)

\* Line 173: stream.write( (U32)pChildren->size() ).
ChildrenWriteCount ==
    /\ At("writeChildren", "count")
    /\ ~pChildren(Top.arg).null
    /\ Write(<<U32(ChildrenCount(Top.arg))>>)
    /\ stack' = IF Len(pChildren(Top.arg).items) = 0
                THEN Goto("return")
                ELSE [stack EXCEPT ![Len(stack)].pc = "loop", ![Len(stack)].i = 1]
    /\ UNCHANGED <<node, custom, compressed, zipAttached, status, result>>

\* The children visited last to first.
ChildAtBackwards(n, i) == pChildren(n).items[Len(pChildren(n).items) + 1 - i]

\* The child the loop of writeChildren visits at index i.
ChildAt(n, i) == pChildren(n).items[i]

\* Lines 176-180: writeElement( stream, (*itr) ).
ChildrenCallElement ==
    /\ At("writeChildren", "loop")
    /\ CallNext(IF Top.i = Len(pChildren(Top.arg).items) THEN "return" ELSE "loop",
                "writeElement", ChildAt(Top.arg, Top.i), "name")
    /\ UNCHANGED <<node, custom, compressed, out, zipAttached, streamOk, status, result>>

\* ---------------------------------------------------- writeCustomElements

\* Lines 191-194: nodes = pTamlWriteNode->mCustomNodes.getNodes().
nodes(n) == node[n].mCustomNodes

\* Lines 197-201: stream.write( (U32)nodes.size() ); finish if no nodes.
CustomElementsWriteCount ==
    /\ At("writeCustomElements", "count")
    /\ Write(<<U32(Len(nodes(Top.arg)))>>)
    /\ stack' = IF Len(nodes(Top.arg)) = 0
                THEN Goto("return")
                ELSE [stack EXCEPT ![Len(stack)].pc = "loop", ![Len(stack)].i = 1]
    /\ UNCHANGED <<node, custom, compressed, zipAttached, status, result>>

\* Lines 204-211: writeCustomNode( stream, pCustomNode ).
CustomElementsCallNode ==
    /\ At("writeCustomElements", "loop")
    /\ CallNext(IF Top.i = Len(nodes(Top.arg)) THEN "return" ELSE "loop",
                "writeCustomNode", nodes(Top.arg)[Top.i], "name")
    /\ UNCHANGED <<node, custom, compressed, out, zipAttached, streamOk, status, result>>

\* -------------------------------------------------------- writeCustomNode

\* Line 219: stream.writeString( pCustomNode->mNodeName ).
CustomNodeWriteName ==
    /\ At("writeCustomNode", "name")
    /\ Write(<<writeString(custom[Top.arg].mNodeName)>>)
    /\ stack' = Goto("flag")
    /\ UNCHANGED <<node, custom, compressed, zipAttached, status, result>>

\* Line 222: pCustomNode->isProxyObject().
isProxyObject(c) == custom[c].mpProxyWriteNode # NULL

\* Line 228: pCustomNode->getProxyWriteNode().
getProxyWriteNode(c) == custom[c].mpProxyWriteNode

\* Lines 222-225: a proxy object: stream.write( true ).
CustomNodeWriteProxyFlag ==
    /\ At("writeCustomNode", "flag")
    /\ isProxyObject(Top.arg)
    /\ Write(<<Bool(TRUE)>>)
    /\ stack' = Goto("proxy")
    /\ UNCHANGED <<node, custom, compressed, zipAttached, status, result>>

\* Lines 228-229: writeElement( stream, pCustomNode->getProxyWriteNode() ); return.
CustomNodeCallElement ==
    /\ At("writeCustomNode", "proxy")
    /\ Call("return", "writeElement", getProxyWriteNode(Top.arg), "name")
    /\ UNCHANGED <<node, custom, compressed, out, zipAttached, streamOk, status, result>>

\* Line 233: not a proxy object: stream.write( false ).
CustomNodeWriteNodeFlag ==
    /\ At("writeCustomNode", "flag")
    /\ ~isProxyObject(Top.arg)
    /\ Write(<<Bool(FALSE)>>)
    /\ stack' = Goto("childCount")
    /\ UNCHANGED <<node, custom, compressed, zipAttached, status, result>>

\* Line 236: nodeChildren = pCustomNode->getChildren().
nodeChildren(c) == custom[c].mChildren

\* Line 259: nodeFields = pCustomNode->getFields().
nodeFields(c) == custom[c].mFields

\* Lines 239-245: stream.write( customNodeCount ).
CustomNodeWriteChildCount ==
    /\ At("writeCustomNode", "childCount")
    /\ Write(<<U32(Len(nodeChildren(Top.arg)))>>)
    /\ stack' = IF Len(nodeChildren(Top.arg)) > 0
                THEN [stack EXCEPT ![Len(stack)].pc = "childLoop", ![Len(stack)].i = 1]
                ELSE Goto("fieldCount")
    /\ UNCHANGED <<node, custom, compressed, zipAttached, status, result>>

\* Lines 248-255: writeCustomNode( stream, pChildNode ).
CustomNodeCallChild ==
    /\ At("writeCustomNode", "childLoop")
    /\ CallNext(IF Top.i = Len(nodeChildren(Top.arg)) THEN "fieldCount" ELSE "childLoop",
                "writeCustomNode", nodeChildren(Top.arg)[Top.i], "name")
    /\ UNCHANGED <<node, custom, compressed, out, zipAttached, streamOk, status, result>>

\* Lines 262-268: stream.write( nodeFieldCount ).
CustomNodeWriteFieldCount ==
    /\ At("writeCustomNode", "fieldCount")
    /\ Write(<<U32(Len(nodeFields(Top.arg)))>>)
    /\ stack' = IF Len(nodeFields(Top.arg)) > 0
                THEN [stack EXCEPT ![Len(stack)].pc = "fields", ![Len(stack)].i = 1]
                ELSE Goto("return")
    /\ UNCHANGED <<node, custom, compressed, zipAttached, status, result>>

\* The field value written before the field name.
NodeFieldTokensValueFirst(pNodeField) ==
    <<writeLongString(MAX_TAML_NODE_FIELDVALUE_LENGTH, pNodeField.mpValue),
      writeString(pNodeField.mName)>>

\* Lines 277-278: the two writes of one custom node field.
NodeFieldTokens(pNodeField) ==
    <<writeString(pNodeField.mName),
      writeLongString(MAX_TAML_NODE_FIELDVALUE_LENGTH, pNodeField.mpValue)>>

\* Lines 271-279: one iteration of the loop over the node fields.
CustomNodeWriteField ==
    /\ At("writeCustomNode", "fields")
    /\ Write(NodeFieldTokens(nodeFields(Top.arg)[Top.i]))
    /\ stack' = IF Top.i = Len(nodeFields(Top.arg))
                THEN Goto("return")
                ELSE [stack EXCEPT ![Len(stack)].i = Top.i + 1]
    /\ UNCHANGED <<node, custom, compressed, zipAttached, status, result>>

\* ------------------------------------------------------- returns and stack

\* A function other than write() returns to its caller.
Return ==
    /\ Running
    /\ Top.fn # "write"
    /\ Top.pc = "return"
    /\ stack' = SubSeq(stack, 1, Len(stack) - 1)
    /\ UNCHANGED <<node, custom, compressed, out, zipAttached, streamOk, status, result>>

\* The places a frame calls another function of the writer from.
CallSites ==
    { <<"writeElement", "attributes">>, <<"writeElement", "children">>,
      <<"writeElement", "custom">>, <<"writeChildren", "loop">>,
      <<"writeCustomElements", "loop">>, <<"writeCustomNode", "proxy">>,
      <<"writeCustomNode", "childLoop">> }

\* A call with the native stack full: the process dies of stack exhaustion.
StackExhausted ==
    /\ Running
    /\ <<Top.fn, Top.pc>> \in CallSites
    /\ Len(stack) >= MaxStack
    /\ status' = "overflow"
    /\ UNCHANGED <<node, custom, compressed, stack, out, zipAttached, streamOk, result>>

Next ==
    \/ WriteSignature
    \/ WriteVersionId
    \/ WriteCompressedFlag
    \/ AttachZipStream
    \/ WriteCallElementZip
    \/ WriteCallElementRaw
    \/ DetachZipStream
    \/ WriteReturn
    \/ ElementWriteName
    \/ ElementWriteObjectName
    \/ ElementWriteRefId
    \/ ElementAssertFatal
    \/ ElementWriteRefTo
    \/ ElementWriteNoRef
    \/ ElementCallAttributes
    \/ ElementCallChildren
    \/ ElementCallCustomElements
    \/ AttributesWriteCount
    \/ AttributesWriteField
    \/ ChildrenWriteNone
    \/ ChildrenWriteCount
    \/ ChildrenCallElement
    \/ CustomElementsWriteCount
    \/ CustomElementsCallNode
    \/ CustomNodeWriteName
    \/ CustomNodeWriteProxyFlag
    \/ CustomNodeCallElement
    \/ CustomNodeWriteNodeFlag
    \/ CustomNodeWriteChildCount
    \/ CustomNodeCallChild
    \/ CustomNodeWriteFieldCount
    \/ CustomNodeWriteField
    \/ Return
    \/ StackExhausted

Spec == Init /\ [][Next]_vars

\* ============================================================= properties

\* The write calls a frame has issued since it was entered, stream tag dropped.
Plain(toks) == [j \in 1..Len(toks) |-> [toks[j] EXCEPT !.zip = FALSE]]
Segment(f) == Plain(SubSeq(out, f.start + 1, Len(out)))

IsPrefix(s, t) == Len(s) <= Len(t) /\ s = SubSeq(t, 1, Len(s))

\* TypeName, InstanceName and Id of the wire grammar, for node n.
ElementHead(n) ==
    <<Str(node[n].mClassName),
      Str(IF node[n].mpObjectName = NULL THEN EmptyString ELSE node[n].mpObjectName),
      U32(node[n].mRefId)>>

\* C1: write reports success only when every write to the stream succeeded,
\* and failure when one of them failed.
C1_FailurePropagated ==
    status = "done" => (result = "true" <=> streamOk)

\* C2: no execution ends, by a return of write or by an abort inside the
\* element encode, with the compression adapter still attached.
C2_AdapterFinalizedOnEveryExit ==
    status \in {"done", "aborted"} => ~zipAttached

\* C3: the first three writes are the signature, the version and the
\* compressed flag, in that order, on the raw stream; the flag equals the
\* argument; the adapter is attached only after them and before any element
\* write; every later write goes through the adapter iff the flag is set.
C3_HeaderThenBody ==
    /\ Len(out) >= 1 => out[1] = Str(TAML_SIGNATURE)
    /\ Len(out) >= 2 => out[2] = U32(mVersionId)
    /\ Len(out) >= 3 => out[3] = Bool(compressed)
    /\ zipAttached => Len(out) >= 3 /\ compressed
    /\ \A j \in 4..Len(out) : out[j].zip = (out[3].v = 1) /\ out[j].zip = compressed
    /\ (Len(out) > 3 /\ compressed /\ status = "running" /\ Len(stack) > 1) => zipAttached
    /\ status = "done" => Len(out) > 3

C3_Witness ==
    /\ status = "done"
    /\ compressed
    /\ Len(out) > 3
    /\ out[3] = Bool(TRUE)
    /\ out[4].zip

\* C4: a node whose mRefToNode is set emits its type name, its instance name,
\* its own id and the target's id, and nothing else: it calls neither
\* writeAttributes nor writeChildren nor writeCustomElements.
C4_BackrefShortCircuit ==
    \A d \in 1..Len(stack) :
        (stack[d].fn = "writeElement" /\ HasRefToNode(stack[d].arg)) =>
            LET n == stack[d].arg
                all == ElementHead(n) \o <<U32(node[node[n].mRefToNode].mRefId)>>
            IN /\ d = Len(stack)
               /\ IsPrefix(Segment(stack[d]), all)
               /\ stack[d].pc = "return" => Segment(stack[d]) = all

C4_Witness ==
    /\ At("writeElement", "return")
    /\ HasRefToNode(Top.arg)
    /\ node[Top.arg].mFields # <<>>
    /\ node[Top.arg].mChildren.items # <<>>
    /\ node[Top.arg].mCustomNodes # <<>>
    /\ Len(Segment(Top)) = 4

\* C5: a node whose reference target has id 0 stops the encoder before the
\* BackrefId is written; a BackrefId written for a node with a reference
\* target is never 0.
C5_NoZeroBackref ==
    /\ \A d \in 1..Len(stack) :
         (stack[d].fn = "writeElement" /\ HasRefToNode(stack[d].arg)
            /\ Len(Segment(stack[d])) >= 4) => Segment(stack[d])[4].v # 0
    /\ status = "aborted" =>
         /\ Top.fn = "writeElement" /\ Top.pc = "refTo"
         /\ HasRefToNode(Top.arg)
         /\ node[node[Top.arg].mRefToNode].mRefId = 0
         /\ Segment(Top) = ElementHead(Top.arg)

C5_Witness ==
    /\ status = "aborted"
    /\ node[node[Top.arg].mRefToNode].mRefId = 0
    /\ Len(Segment(Top)) = 3

\* ---- the wire grammar of an element and of a custom node, as the format
\* ---- defines it (Element, Attributes, Children, CustomNodes, CustomNode)

RECURSIVE WireElement(_), WireElements(_), WireCustomNode(_), WireCustomNodes(_)

\* Count, then name and value of every pair in array order; values are cut
\* at maxLen as the stream's long-string write cuts them.
WireFields(fs, maxLen) ==
    LET pair(j) == <<Str(fs[j].mName),
                     [k |-> "lstr", v |-> fs[j].mpValue.s,
                      len |-> Min(fs[j].mpValue.len, maxLen), zip |-> FALSE]>>
        upTo[j \in 0..Len(fs)] == IF j = 0 THEN <<>> ELSE upTo[j - 1] \o pair(j)
    IN upTo[Len(fs)]

WireElements(ns) ==
    IF ns = <<>> THEN <<>> ELSE WireElement(Head(ns)) \o WireElements(Tail(ns))

WireCustomNodes(cs) ==
    IF cs = <<>> THEN <<>> ELSE WireCustomNode(Head(cs)) \o WireCustomNodes(Tail(cs))

WireAttributes(n) ==
    <<U32(Len(node[n].mFields))>> \o WireFields(node[n].mFields, AttributeValueMax)

WireChildren(n) ==
    <<U32(Len(node[n].mChildren.items))>> \o WireElements(node[n].mChildren.items)

WireCustomBlock(n) ==
    <<U32(Len(node[n].mCustomNodes))>> \o WireCustomNodes(node[n].mCustomNodes)

WireElement(n) ==
    IF node[n].mRefToNode # NULL
    THEN ElementHead(n) \o <<U32(node[node[n].mRefToNode].mRefId)>>
    ELSE ElementHead(n) \o <<U32(0)>>
           \o WireAttributes(n) \o WireChildren(n) \o WireCustomBlock(n)

WireCustomNode(c) ==
    IF custom[c].mpProxyWriteNode # NULL
    THEN <<Str(custom[c].mNodeName), Bool(TRUE)>>
           \o WireElement(custom[c].mpProxyWriteNode)
    ELSE <<Str(custom[c].mNodeName), Bool(FALSE)>>
           \o <<U32(Len(custom[c].mChildren))>> \o WireCustomNodes(custom[c].mChildren)
           \o <<U32(Len(custom[c].mFields))>>
           \o WireFields(custom[c].mFields, MAX_TAML_NODE_FIELDVALUE_LENGTH)

\* C6: a node without a reference target emits, after its id, a 0, then the
\* whole attributes block, the whole children block and the whole custom
\* nodes block, in that order, each a count followed by that many items in
\* array order.
C6_BodyOrder ==
    (At("writeElement", "return") /\ ~HasRefToNode(Top.arg)) =>
        Segment(Top) = ElementHead(Top.arg) \o <<U32(0)>> \o WireAttributes(Top.arg)
                         \o WireChildren(Top.arg) \o WireCustomBlock(Top.arg)

C6_Witness ==
    /\ At("writeElement", "return")
    /\ ~HasRefToNode(Top.arg)
    /\ Len(node[Top.arg].mFields) >= 2
    /\ Len(node[Top.arg].mChildren.items) >= 2
    /\ Len(node[Top.arg].mCustomNodes) >= 2

\* C8: a custom node is its name and its proxy flag, followed for a proxy by
\* the wrapped element alone, and otherwise by the child count, the child
\* custom nodes in order, the field count and the fields in order.
C8_CustomNodeLayout ==
    At("writeCustomNode", "return") => Segment(Top) = WireCustomNode(Top.arg)

C8_Witness ==
    /\ At("writeCustomNode", "return")
    /\ custom[Top.arg].mpProxyWriteNode = NULL
    /\ Len(custom[Top.arg].mFields) >= 2
    /\ \E j \in 1..Len(custom[Top.arg].mChildren) :
         custom[custom[Top.arg].mChildren[j]].mpProxyWriteNode # NULL
    /\ \E j \in 1..Len(custom[Top.arg].mChildren) :
         custom[custom[Top.arg].mChildren[j]].mpProxyWriteNode = NULL

\* C9: a node without reference target, fields, children and custom nodes
\* emits its head, the 0 of "no reference" and three zero counts, nothing
\* more, whether its children vector is NULL or empty.
C9_EmptyContainers ==
    (/\ At("writeElement", "return")
     /\ ~HasRefToNode(Top.arg)
     /\ node[Top.arg].mFields = <<>>
     /\ node[Top.arg].mChildren.items = <<>>
     /\ node[Top.arg].mCustomNodes = <<>>) =>
        Segment(Top) = ElementHead(Top.arg) \o <<U32(0), U32(0), U32(0), U32(0)>>

\* An empty node with an empty vector returns after a sibling with a NULL one.
C9_Witness ==
    /\ At("writeElement", "return")
    /\ Len(stack) > 2
    /\ node[Top.arg].mFields = <<>>
    /\ node[Top.arg].mCustomNodes = <<>>
    /\ ~node[Top.arg].mChildren.null
    /\ node[Top.arg].mChildren.items = <<>>
    /\ \E j \in 1..(stack[Len(stack) - 1].i - 2) :
         LET sib == node[stack[Len(stack) - 1].arg].mChildren.items[j]
         IN node[sib].mChildren.null /\ node[sib].mCustomNodes = <<>>

\* ---- a reader that mirrors the wire grammar

Fail == [ok |-> FALSE, val |-> <<>>, rest |-> <<>>]
Got(val, rest) == [ok |-> TRUE, val |-> val, rest |-> rest]
Drop(toks, count) == SubSeq(toks, count + 1, Len(toks))
Kinds(toks, ks) == Len(toks) >= Len(ks) /\ \A j \in 1..Len(ks) : toks[j].k = ks[j]

RECURSIVE ReadPairs(_, _), ReadElement(_), ReadElements(_, _),
          ReadCustomNode(_), ReadCustomNodes(_, _)

\* count times Name:str Value:str
ReadPairs(toks, count) ==
    IF count = 0 THEN Got(<<>>, toks)
    ELSE IF ~Kinds(toks, <<"str", "lstr">>) THEN Fail
    ELSE LET more == ReadPairs(Drop(toks, 2), count - 1)
         IN IF ~more.ok THEN Fail
            ELSE Got(<< [name |-> toks[1].v,
                         value |-> [s |-> toks[2].v, len |-> toks[2].len]] >> \o more.val,
                     more.rest)

\* Count:u32 then count pairs
ReadCounted(toks) ==
    IF ~Kinds(toks, <<"u32">>) THEN Fail ELSE ReadPairs(Drop(toks, 1), toks[1].v)

ReadElements(toks, count) ==
    IF count = 0 THEN Got(<<>>, toks)
    ELSE LET one == ReadElement(toks)
         IN IF ~one.ok THEN Fail
            ELSE LET more == ReadElements(one.rest, count - 1)
                 IN IF ~more.ok THEN Fail ELSE Got(<<one.val>> \o more.val, more.rest)

ReadCustomNodes(toks, count) ==
    IF count = 0 THEN Got(<<>>, toks)
    ELSE LET one == ReadCustomNode(toks)
         IN IF ~one.ok THEN Fail
            ELSE LET more == ReadCustomNodes(one.rest, count - 1)
                 IN IF ~more.ok THEN Fail ELSE Got(<<one.val>> \o more.val, more.rest)

\* Element := TypeName InstanceName Id BackrefId [Attributes Children CustomNodes]
ReadElement(toks) ==
    IF ~Kinds(toks, <<"str", "str", "u32", "u32">>) THEN Fail
    ELSE IF toks[4].v # 0
    THEN Got([typeName |-> toks[1].v, instanceName |-> toks[2].v, backref |-> toks[4].v,
              fields |-> <<>>, children |-> <<>>, customNodes |-> <<>>], Drop(toks, 4))
    ELSE LET attrs == ReadCounted(Drop(toks, 4))
         IN IF ~attrs.ok \/ ~Kinds(attrs.rest, <<"u32">>) THEN Fail
            ELSE LET kids == ReadElements(Drop(attrs.rest, 1), attrs.rest[1].v)
                 IN IF ~kids.ok \/ ~Kinds(kids.rest, <<"u32">>) THEN Fail
                    ELSE LET cs == ReadCustomNodes(Drop(kids.rest, 1), kids.rest[1].v)
                         IN IF ~cs.ok THEN Fail
                            ELSE Got([typeName |-> toks[1].v, instanceName |-> toks[2].v,
                                      backref |-> 0, fields |-> attrs.val,
                                      children |-> kids.val, customNodes |-> cs.val],
                                     cs.rest)

\* CustomNode := Name IsProxy (Element | ChildCount CustomNode* FieldCount pairs)
ReadCustomNode(toks) ==
    IF ~Kinds(toks, <<"str", "bool">>) THEN Fail
    ELSE IF toks[2].v = 1
    THEN LET e == ReadElement(Drop(toks, 2))
         IN IF ~e.ok THEN Fail
            ELSE Got([name |-> toks[1].v, isProxy |-> TRUE, element |-> <<e.val>>,
                      children |-> <<>>, fields |-> <<>>], e.rest)
    ELSE IF ~Kinds(Drop(toks, 2), <<"u32">>) THEN Fail
    ELSE LET cs == ReadCustomNodes(Drop(toks, 3), toks[3].v)
         IN IF ~cs.ok THEN Fail
            ELSE LET fs == ReadCounted(cs.rest)
                 IN IF ~fs.ok THEN Fail
                    ELSE Got([name |-> toks[1].v, isProxy |-> FALSE, element |-> <<>>,
                              children |-> cs.val, fields |-> fs.val], fs.rest)

\* Document := Signature Version Compressed Body, the body read through the
\* decompressor iff the flag is set.
ReadDocument(o) ==
    IF ~Kinds(o, <<"str", "u32", "bool">>) THEN Fail
    ELSE IF o[1].v # TAML_SIGNATURE \/ o[2].v # mVersionId THEN Fail
    ELSE IF \E j \in 1..3 : o[j].zip THEN Fail
    ELSE IF \E j \in 4..Len(o) : o[j].zip # (o[3].v = 1) THEN Fail
    ELSE ReadElement(Plain(Drop(o, 3)))

\* ---- the input as a logical tree

RECURSIVE TreeOf(_), TreesOf(_), CustomTreeOf(_), CustomTreesOf(_)

PairsOf(fs) == [j \in 1..Len(fs) |-> [name |-> fs[j].mName, value |-> fs[j].mpValue]]

TreesOf(ns) == IF ns = <<>> THEN <<>> ELSE <<TreeOf(Head(ns))>> \o TreesOf(Tail(ns))

CustomTreesOf(cs) ==
    IF cs = <<>> THEN <<>> ELSE <<CustomTreeOf(Head(cs))>> \o CustomTreesOf(Tail(cs))

TreeOf(n) ==
    [typeName |-> node[n].mClassName,
     instanceName |-> IF node[n].mpObjectName = NULL THEN EmptyString
                      ELSE node[n].mpObjectName,
     backref |-> 0,
     fields |-> PairsOf(node[n].mFields),
     children |-> TreesOf(node[n].mChildren.items),
     customNodes |-> CustomTreesOf(node[n].mCustomNodes)]

CustomTreeOf(c) ==
    IF custom[c].mpProxyWriteNode # NULL
    THEN [name |-> custom[c].mNodeName, isProxy |-> TRUE,
          element |-> <<TreeOf(custom[c].mpProxyWriteNode)>>,
          children |-> <<>>, fields |-> <<>>]
    ELSE [name |-> custom[c].mNodeName, isProxy |-> FALSE, element |-> <<>>,
          children |-> CustomTreesOf(custom[c].mChildren),
          fields |-> PairsOf(custom[c].mFields)]

BackrefFree == \A n \in Nodes : node[n].mRefToNode = NULL

ValuesWithinBounds ==
    /\ \A n \in Nodes : \A j \in 1..Len(node[n].mFields) :
         node[n].mFields[j].mpValue.len <= AttributeValueMax
    /\ \A c \in Customs : \A j \in 1..Len(custom[c].mFields) :
         custom[c].mFields[j].mpValue.len <= MAX_TAML_NODE_FIELDVALUE_LENGTH

\* C7: for a tree without backreferences whose values are within their length
\* bounds, and a stream that took every write, the reader gets from the
\* written tokens the tree that was written and consumes all of them.
C7_RoundTrip ==
    (status = "done" /\ streamOk /\ BackrefFree /\ ValuesWithinBounds) =>
        LET r == ReadDocument(out)
        IN /\ r.ok
           /\ r.rest = <<>>
           /\ r.val = TreeOf(Root)

C7_Witness ==
    /\ status = "done" /\ streamOk /\ BackrefFree /\ ValuesWithinBounds
    /\ compressed
    /\ Len(node[Root].mFields) >= 2
    /\ Len(node[Root].mChildren.items) >= 2
    /\ \E n \in Nodes :
         /\ \E j \in 1..Len(node[Root].mChildren.items) : node[Root].mChildren.items[j] = n
         /\ Len(node[n].mCustomNodes) = 1
         /\ Len(custom[node[n].mCustomNodes[1]].mChildren) >= 2
         /\ Len(custom[node[n].mCustomNodes[1]].mFields) >= 2

\* ---- the depth of the input

Max(a, b) == IF a > b THEN a ELSE b

RECURSIVE DepthOfNode(_, _), DepthOfCustom(_, _), DeepestNode(_, _), DeepestCustom(_, _)

DeepestNode(ns, seen) ==
    IF ns = <<>> THEN 0
    ELSE Max(DepthOfNode(Head(ns), seen), DeepestNode(Tail(ns), seen))

DeepestCustom(cs, seen) ==
    IF cs = <<>> THEN 0
    ELSE Max(DepthOfCustom(Head(cs), seen), DeepestCustom(Tail(cs), seen))

\* The number of objects on the longest path from node n that visits no
\* object twice: children, custom nodes and wrapped nodes are one level down.
DepthOfNode(n, seen) ==
    IF <<"node", n>> \in seen THEN 0
    ELSE IF node[n].mRefToNode # NULL THEN 1
    ELSE 1 + Max(DeepestNode(node[n].mChildren.items, seen \cup {<<"node", n>>}),
                 DeepestCustom(node[n].mCustomNodes, seen \cup {<<"node", n>>}))

DepthOfCustom(c, seen) ==
    IF <<"custom", c>> \in seen THEN 0
    ELSE IF custom[c].mpProxyWriteNode # NULL
    THEN 1 + DepthOfNode(custom[c].mpProxyWriteNode, seen \cup {<<"custom", c>>})
    ELSE 1 + DeepestCustom(custom[c].mChildren, seen \cup {<<"custom", c>>})

ActiveCalls ==
    Cardinality({d \in 1..Len(stack) : stack[d].fn \in {"writeElement", "writeCustomNode"}})

\* C10: the encode of every finite input, a proxy wrapping its carrier or an
\* ancestor included, never has more writeElement and writeCustomNode calls
\* active than the input is deep, and never exhausts the stack.
C10_RecursionBoundedByDepth ==
    /\ ActiveCalls <= DepthOfNode(Root, {})
    /\ status # "overflow"

====
